---- MODULE Spec2Model ----
(***************************************************************************)
(* fedup: staging of an in-place upgrade (sysprep.py) and the command-line *)
(* validation and cleanup driver (commandline.py).                         *)
(*                                                                         *)
(* Four specifications share this module:                                  *)
(*   Spec      the filesystem / bootloader life cycle: prep_upgrade,       *)
(*             prep_boot and do_cleanup applied in any order;              *)
(*   SpecStage prep_upgrade alone, over whatever packagedir held;          *)
(*   SpecRetry prep_upgrade with link failures and retries;                *)
(*   SpecArgs  parse_args, then device_setup, applied to a bounded set of  *)
(*             command lines and installed systems.                        *)
(***************************************************************************)
EXTENDS Integers, Sequences, FiniteSets, TLC

VARIABLES
    packagedir,      \* [exists, ents]: the directory and its entries
    packagelist,     \* [exists, lines]: packagedir's package-list file
    upgradeconf,     \* [exists, has_dirs, dirs, kernel, initrd]: persisted state
    cachedir,        \* TRUE iff the package-manager cache directory exists
    upgradelink,     \* "absent" | "packagedir" | "other": the symlink's target
    upgraderoot,     \* TRUE iff the upgrade root directory exists
    target_requires, \* TRUE iff upgrade_target_requires exists
    bootmenu,        \* set of <<kernel, initrd>> boot-menu entries
    bootfiles,       \* set of kernel / initrd paths that exist on disk
    moddirs,         \* kernel versions with a directory under /lib/modules
    xdev,            \* TRUE iff packagedir and the package cache are on
                     \* different filesystems (os.link gives errno 18)
    last,            \* the last operation run, its arguments and outcome;
                     \* for prep_upgrade also: again (the operation before
                     \* was a completed prep_upgrade of the same pkgs),
                     \* removed (the entries of packagedir it removed),
                     \* linkbefore (what upgradelink was before it) and
                     \* retry (the operation before was a prep_upgrade of
                     \* the same pkgs that a link failure aborted); for
                     \* do_cleanup also: printed (the lines it printed)
    staged,          \* history: staging completed since the last full cleanup
    cmdline,         \* SpecArgs: the command line and the installed system
    parsed           \* SpecArgs: the outcome of parse_args, and of
                     \* device_setup after it (setup, mnt)

fsvars == <<packagedir, packagelist, upgradeconf, cachedir, upgradelink,
            upgraderoot, target_requires, bootmenu, bootfiles, moddirs>>
argvars == <<cmdline, parsed>>
vars == <<packagedir, packagelist, upgradeconf, cachedir, upgradelink,
          upgraderoot, target_requires, bootmenu, bootfiles, moddirs,
          xdev, last, staged, cmdline, parsed>>

(***************************************************************************)
(* Bounds and value sets                                                   *)
(***************************************************************************)
\* Longest package list handed to prep_upgrade: in SpecStage, and in Spec.
MaxPkgs == 2
MaxLifePkgs == 2

\* Python's None, and a falsy string.
NONE == "None"

\* Names an entry of packagedir can have; f.endswith(".rpm") holds of RpmNames.
RpmNames == {"a.rpm", "b.rpm"}
OtherNames == {"notes.txt"}
EntryNames == RpmNames \cup OtherNames
endswith_rpm(f) == f \in RpmNames

\* An entry of packagedir:
\*   "absent"  no such entry
\*   "file"    a regular file that is not the package's source file
\*   "dir"     a directory
\*   "link"    a hard link to the package's source file (same lstat)
\*   "copy"    a copy2 of the package's source file (another inode)
EntryKinds == {"absent", "file", "dir", "link", "copy"}

\* A package: its basename and where yum says it is.
\*   "media"    remote_url starts with file:// (on mounted media)
\*   "missing"  localPkg() does not exist
\*   "local"    localPkg() exists
PkgKinds == {"media", "missing", "local"}
Pkg == [name : RpmNames, kind : PkgKinds]

RECURSIVE SeqsUpTo(_, _)
SeqsUpTo(S, n) ==
    IF n = 0 THEN {<< >>}
    ELSE LET shorter == SeqsUpTo(S, n - 1)
         IN shorter \cup {Append(s, x) : s \in shorter, x \in S}

PkgLists == SeqsUpTo(Pkg, MaxPkgs)
\* The life cycle stages one package name; its link may fail.
LifeNames == {"a.rpm"}
LifePkgLists == SeqsUpTo({p \in Pkg : p.name \in LifeNames}, MaxLifePkgs)

Kernels == {"/boot/vmlinuz-fedup", "/boot/vmlinuz-alt"}
Initrds == {"/boot/initramfs-fedup.img"}
BootPaths == Kernels \cup Initrds

(***************************************************************************)
(* The filesystem as one value, so that the functions of sysprep.py can be *)
(* composed in the order the code calls them.                              *)
(***************************************************************************)
FS == [packagedir |-> packagedir, packagelist |-> packagelist,
       upgradeconf |-> upgradeconf, cachedir |-> cachedir,
       upgradelink |-> upgradelink, upgraderoot |-> upgraderoot,
       target_requires |-> target_requires, bootmenu |-> bootmenu,
       bootfiles |-> bootfiles, moddirs |-> moddirs]

SetFS(fs) ==
    /\ packagedir' = fs.packagedir
    /\ packagelist' = fs.packagelist
    /\ upgradeconf' = fs.upgradeconf
    /\ cachedir' = fs.cachedir
    /\ upgradelink' = fs.upgradelink
    /\ upgraderoot' = fs.upgraderoot
    /\ target_requires' = fs.target_requires
    /\ bootmenu' = fs.bootmenu
    /\ bootfiles' = fs.bootfiles
    /\ moddirs' = fs.moddirs

NoEnts == [n \in EntryNames |-> "absent"]
NoDir == [exists |-> FALSE, ents |-> NoEnts]
NoList == [exists |-> FALSE, lines |-> {}]
NoConf == [exists |-> FALSE, has_dirs |-> FALSE, dirs |-> << >>,
           kernel |-> NONE, initrd |-> NONE]

\* The paths the module imports; packagelist and upgradeconf live in packagedir.
cachedir_path == "cachedir"
packagedir_path == "packagedir"
upgraderoot_path == "upgraderoot"
upgrade_target_requires == "/lib/systemd/system/system-upgrade.target.requires"
SEP == ";"

\* ';'.join(dirs): the paths with a separator between them, as a token string.
RECURSIVE join(_)
join(dirs) ==
    IF Len(dirs) = 0 THEN << >>
    ELSE IF Len(dirs) = 1 THEN <<dirs[1]>>
    ELSE <<dirs[1], SEP>> \o join(Tail(dirs))

\* s.split(';'): the pieces between separators; an empty string gives [''].
RECURSIVE split(_)
split(s) ==
    IF \A i \in 1..Len(s) : s[i] # SEP THEN <<s>>
    ELSE LET i == CHOOSE k \in 1..Len(s) :
                      s[k] = SEP /\ \A j \in 1..(k - 1) : s[j] # SEP
         IN <<SubSeq(s, 1, i - 1)>> \o split(SubSeq(s, i + 1, Len(s)))

\* The path a piece of a split string names ('' for the empty piece).
PathOf(piece) ==
    IF Len(piece) = 1 THEN piece[1] ELSE IF Len(piece) = 0 THEN "" ELSE "?"

\* util.mkdir_p on packagedir.
mkdir_p(dir) == [dir EXCEPT !.exists = TRUE]

\* Config(upgradeconf).get(section, key): None when the file or the key is absent.
conf_get_kernel(fs) == IF fs.upgradeconf.exists THEN fs.upgradeconf.kernel ELSE NONE
conf_get_initrd(fs) == IF fs.upgradeconf.exists THEN fs.upgradeconf.initrd ELSE NONE
conf_get_dirs(fs) ==
    IF fs.upgradeconf.exists /\ fs.upgradeconf.has_dirs
    THEN fs.upgradeconf.dirs ELSE << >>

\* util.rm_rf(d): force-remove a directory tree; no error if d is absent.
rm_rf(d, fs) ==
    IF d = cachedir_path THEN [fs EXCEPT !.cachedir = FALSE]
    ELSE IF d = packagedir_path
    THEN [fs EXCEPT !.packagedir = NoDir, !.packagelist = NoList,
                    !.upgradeconf = NoConf]
    ELSE IF d = upgraderoot_path THEN [fs EXCEPT !.upgraderoot = FALSE]
    ELSE IF d = upgrade_target_requires THEN [fs EXCEPT !.target_requires = FALSE]
    ELSE fs

\* util.rm_f(f): force-remove a file or symlink; no error if f is absent.
rm_f(f, fs) ==
    IF f = "upgradelink" THEN [fs EXCEPT !.upgradelink = "absent"]
    ELSE [fs EXCEPT !.bootfiles = @ \ {f}]

(***************************************************************************)
(* Stage engine (sysprep.py).  Every function returns [fs, err]: the       *)
(* filesystem it leaves and the exception it raised (NONE: it returned).   *)
(***************************************************************************)
Ok(fs) == [fs |-> fs, err |-> NONE]
Raise(fs, e) == [fs |-> fs, err |-> e]

\* One pass of the loop of link_pkgs over pkg; acc is [ents, names, err].
\* fail names the package whose os.link / copy2 fails with an errno other
\* than 18 in this run (NONE: no such failure).
link_one_mut_names_missing(acc, pkg, fail) ==
    IF pkg.kind = "media"
    THEN [acc EXCEPT !.names = @ \cup {"media/" \o pkg.name}]
    ELSE LET named == [acc EXCEPT !.names = @ \cup {pkg.name}]
         IN IF pkg.kind = "missing" \/ acc.ents[pkg.name] = "link"
            THEN named
            ELSE IF fail = pkg.name
            THEN [named EXCEPT !.ents[pkg.name] = "absent", !.err = "link"]
            ELSE [named EXCEPT
                    !.ents[pkg.name] = IF xdev THEN "copy" ELSE "link"]
link_one(acc, pkg, fail) ==
    IF pkg.kind = "media"
    THEN [acc EXCEPT !.names = @ \cup {"media/" \o pkg.name}]
    ELSE IF pkg.kind = "missing"
    THEN acc
    ELSE LET named == [acc EXCEPT !.names = @ \cup {pkg.name}]
         IN IF acc.ents[pkg.name] = "link"
            THEN named
            ELSE IF fail = pkg.name
            THEN [named EXCEPT !.ents[pkg.name] = "absent", !.err = "link"]
            ELSE [named EXCEPT
                    !.ents[pkg.name] = IF xdev THEN "copy" ELSE "link"]

RECURSIVE link_loop(_, _, _, _)
link_loop(acc, pkgs, i, fail) ==
    IF i > Len(pkgs) \/ acc.err # NONE THEN acc
    ELSE link_loop(link_one(acc, pkgs[i], fail), pkgs, i + 1, fail)

\* The entries the "remove spurious / leftover RPMs" loop removes.
stale_mut_any_suffix(ents, names) ==
    {f \in EntryNames : ents[f] # "absent" /\ f \notin names}
stale(ents, names) ==
    {f \in EntryNames : ents[f] # "absent" /\ endswith_rpm(f) /\ f \notin names}

\* ents without the entries in gone.
remove_entries(ents, gone) ==
    [f \in EntryNames |-> IF f \in gone THEN "absent" ELSE ents[f]]

\* The cleanup data link_pkgs persists.
write_cleanup(conf) ==
    [conf EXCEPT !.exists = TRUE, !.has_dirs = TRUE,
                 !.dirs = join(<<cachedir_path, packagedir_path>>)]

\* link_pkgs(pkgs): the set of outcomes.  os.remove raises on a directory, and
\* os.listdir gives the entries in no particular order, so a stale directory
\* ends the removal loop after any subset of the stale files has gone.
link_pkgs_mut_list_on_error(fs, pkgs, fail) ==
    LET dir == mkdir_p(fs.packagedir)
        made == [fs EXCEPT !.packagedir = dir]
        acc == link_loop([ents |-> dir.ents, names |-> {}, err |-> NONE],
                         pkgs, 1, fail)
        linked == [made EXCEPT !.packagedir.ents = acc.ents]
        gone == stale(acc.ents, acc.names)
        gonefiles == {f \in gone : acc.ents[f] # "dir"}
    IN IF acc.err # NONE
       THEN {Raise([linked EXCEPT
                      !.packagelist = [exists |-> TRUE, lines |-> acc.names]],
                   acc.err)}
       ELSE IF gone # gonefiles
       THEN {Raise([linked EXCEPT
                      !.packagedir.ents = remove_entries(acc.ents, some)],
                   "EISDIR") : some \in SUBSET gonefiles}
       ELSE {Ok([linked EXCEPT
                   !.packagedir.ents = remove_entries(acc.ents, gone),
                   !.packagelist = [exists |-> TRUE, lines |-> acc.names],
                   !.upgradeconf = write_cleanup(fs.upgradeconf)])}
link_pkgs(fs, pkgs, fail) ==
    LET dir == mkdir_p(fs.packagedir)
        made == [fs EXCEPT !.packagedir = dir]
        acc == link_loop([ents |-> dir.ents, names |-> {}, err |-> NONE],
                         pkgs, 1, fail)
        linked == [made EXCEPT !.packagedir.ents = acc.ents]
        gone == stale(acc.ents, acc.names)
        gonefiles == {f \in gone : acc.ents[f] # "dir"}
    IN IF acc.err # NONE THEN {Raise(linked, acc.err)}
       ELSE IF gone # gonefiles
       THEN {Raise([linked EXCEPT
                      !.packagedir.ents = remove_entries(acc.ents, some)],
                   "EISDIR") : some \in SUBSET gonefiles}
       ELSE {Ok([linked EXCEPT
                   !.packagedir.ents = remove_entries(acc.ents, gone),
                   !.packagelist = [exists |-> TRUE, lines |-> acc.names],
                   !.upgradeconf = write_cleanup(fs.upgradeconf)])}

\* setup_upgradelink(): os.remove, its OSError ignored, then os.symlink.
setup_upgradelink_mut_keep(fs) ==
    IF fs.upgradelink # "absent" THEN Ok(fs)
    ELSE Ok([fs EXCEPT !.upgradelink = "packagedir"])
setup_upgradelink(fs) ==
    Ok([rm_f("upgradelink", fs) EXCEPT !.upgradelink = "packagedir"])

\* setup_upgraderoot(): os.makedirs unless the directory is there.
setup_upgraderoot_mut_nocheck(fs) ==
    IF fs.upgraderoot THEN Raise(fs, "EEXIST")
    ELSE Ok([fs EXCEPT !.upgraderoot = TRUE])
setup_upgraderoot(fs) ==
    IF fs.upgraderoot THEN Ok(fs)
    ELSE Ok([fs EXCEPT !.upgraderoot = TRUE])

\* prep_upgrade(pkgs): link_pkgs, setup_upgradelink, setup_upgraderoot, each
\* run unless the one before it raised.
prep_upgrade(fs, pkgs, fail) ==
    {LET linked == IF o.err # NONE THEN o ELSE setup_upgradelink(o.fs)
     IN IF linked.err # NONE THEN linked ELSE setup_upgraderoot(linked.fs) :
        o \in link_pkgs(fs, pkgs, fail)}

(***************************************************************************)
(* Boot preparation (sysprep.py) and the boot collaborator it calls.       *)
(***************************************************************************)
\* util.kernelver(kernel): the version of the kernel image, None if it
\* cannot be determined.
kernelver(kernel) == IF kernel = "/boot/vmlinuz-fedup" THEN "3.11.10" ELSE NONE

\* boot.add_entry(kernel, initrd, banner): installs the boot-menu entry and
\* records the pair in the persisted state (upgradeconf, inside packagedir).
add_entry(fs, kernel, initrd) ==
    [fs EXCEPT !.bootmenu = @ \cup {<<kernel, initrd>>},
               !.packagedir = mkdir_p(@),
               !.upgradeconf = [@ EXCEPT !.exists = TRUE, !.kernel = kernel,
                                         !.initrd = initrd]]

\* boot.remove_entry(kernel): removes the boot-menu entries of that kernel.
remove_entry(fs, kernel) ==
    [fs EXCEPT !.bootmenu = {e \in @ : e[1] # kernel}]

\* modify_bootloader(kernel, initrd)
modify_bootloader_mut_swapped(fs, kernel, initrd) == add_entry(fs, initrd, kernel)
modify_bootloader(fs, kernel, initrd) == add_entry(fs, kernel, initrd)

\* prep_boot(kernel, initrd).  What it appends to the initrd (mdadm.conf,
\* crypttab, update images) changes the content of the image only, which no
\* operation of the cleanup or the staging reads; the image is modelled as a
\* path that exists or not.
prep_boot(fs, kernel, initrd) ==
    LET kv == kernelver(kernel)
        withmods == IF kv # NONE
                    THEN [fs EXCEPT !.moddirs = @ \cup {kv}]
                    ELSE fs
    IN Ok(modify_bootloader(withmods, kernel, initrd))

(***************************************************************************)
(* Cleanup engine (sysprep.py, commandline.py)                             *)
(***************************************************************************)
\* reset_boot()
reset_boot(fs) ==
    LET kernel == conf_get_kernel(fs)
    IN IF kernel # NONE THEN remove_entry(fs, kernel) ELSE fs

\* remove_boot()
remove_boot(fs) ==
    LET kernel == conf_get_kernel(fs)
        initrd == conf_get_initrd(fs)
        nokernel == IF kernel # NONE THEN rm_f(kernel, fs) ELSE fs
    IN IF initrd # NONE THEN rm_f(initrd, nokernel) ELSE nokernel

\* rm_rf of every path of the list, in order.
RECURSIVE rm_rf_all(_, _)
rm_rf_all(dirs, fs) ==
    IF dirs = << >> THEN fs
    ELSE rm_rf_all(Tail(dirs), rm_rf(Head(dirs), fs))

\* remove_cache(): the persisted list, then cachedir and packagedir.
remove_cache_mut_persisted_only(fs) ==
    LET pieces == split(conf_get_dirs(fs))
    IN rm_rf_all([i \in 1..Len(pieces) |-> PathOf(pieces[i])], fs)
remove_cache(fs) ==
    LET pieces == split(conf_get_dirs(fs))
        cleanup == [i \in 1..Len(pieces) |-> PathOf(pieces[i])]
                   \o <<cachedir_path, packagedir_path>>
    IN rm_rf_all(cleanup, fs)

\* misc_cleanup()
misc_cleanup(fs) ==
    rm_rf(upgrade_target_requires,
          rm_rf(upgraderoot_path, rm_f("upgradelink", fs)))

\* The arguments do_cleanup reads.
CleanArgs == [skipbootloader : BOOLEAN, skipkernel : BOOLEAN,
              skippkgs : BOOLEAN, clean : {"bootloader", "all"}]

\* do_cleanup(args)
do_cleanup_mut_no_return(fs, args) ==
    LET s1 == IF ~args.skipbootloader THEN reset_boot(fs) ELSE fs
        s3 == IF ~args.skipkernel THEN remove_boot(s1) ELSE s1
        s4 == IF ~args.skippkgs THEN remove_cache(s3) ELSE s3
    IN misc_cleanup(s4)
do_cleanup_mut_kernel_skips_pkgs(fs, args) ==
    LET s1 == IF ~args.skipbootloader THEN reset_boot(fs) ELSE fs
        s3 == IF ~args.skipkernel THEN remove_boot(s1) ELSE s1
        s4 == IF ~args.skipkernel /\ ~args.skippkgs THEN remove_cache(s3) ELSE s3
    IN IF args.clean = "bootloader" THEN s1 ELSE misc_cleanup(s4)
do_cleanup_mut_cache_first(fs, args) ==
    LET s1 == IF ~args.skipbootloader THEN reset_boot(fs) ELSE fs
        s4 == IF ~args.skippkgs THEN remove_cache(s1) ELSE s1
        s3 == IF ~args.skipkernel THEN remove_boot(s4) ELSE s4
    IN IF args.clean = "bootloader" THEN s1 ELSE misc_cleanup(s3)
do_cleanup(fs, args) ==
    LET s1 == IF ~args.skipbootloader THEN reset_boot(fs) ELSE fs
        s3 == IF ~args.skipkernel THEN remove_boot(s1) ELSE s1
        s4 == IF ~args.skippkgs THEN remove_cache(s3) ELSE s3
    IN IF args.clean = "bootloader" THEN s1 ELSE misc_cleanup(s4)

\* What do_cleanup(args) prints: one line ahead of each step it runs.
do_cleanup_output(args) ==
    (IF ~args.skipbootloader THEN <<"resetting bootloader config">> ELSE << >>)
    \o (IF args.clean = "bootloader" THEN << >>
        ELSE (IF ~args.skipkernel THEN <<"removing boot images">> ELSE << >>)
             \o (IF ~args.skippkgs THEN <<"removing downloaded packages">>
                 ELSE << >>)
             \o <<"removing miscellaneous files">>)

(***************************************************************************)
(* The life cycle: Spec                                                    *)
(***************************************************************************)
NoOp == [op |-> "none", ok |-> TRUE, err |-> NONE, pkgs |-> << >>,
         kernel |-> NONE, initrd |-> NONE, clean |-> NONE,
         skipbootloader |-> FALSE, skipkernel |-> FALSE, skippkgs |-> FALSE,
         again |-> FALSE, removed |-> {}, linkbefore |-> NONE,
         printed |-> << >>, retry |-> FALSE]
NothingStaged == [upgrade |-> FALSE, boot |-> {}]

\* The command line is not part of the life cycle.
IdleCmdline == [gui |-> FALSE, network |-> NONE, device |-> NONE,
                found |-> << >>, iso |-> NONE, product |-> NONE,
                cleanflags |-> << >>, installed |-> <<"", "">>,
                repoflags |-> << >>, instrepo |-> NONE, instrepokey |-> NONE]
IdleParsed == [status |-> "idle", msg |-> NONE, network |-> NONE,
               device |-> NONE, iso |-> NONE, product |-> NONE,
               clean |-> NONE, resetbootloader |-> FALSE,
               repos |-> << >>, instrepo |-> NONE, instrepokey |-> NONE,
               setup |-> "none", mnt |-> NONE]

\* What packagedir can hold before the first staging: nothing, or what an
\* earlier staging or the user left there.
InitEnts ==
    {e \in [EntryNames -> {"absent", "file", "dir"}] :
        \A f \in OtherNames : e[f] # "dir"}

\* A system that was never staged, its package cache on the filesystem of
\* packagedir.
Init ==
    /\ packagedir = NoDir
    /\ packagelist = NoList
    /\ upgradeconf = NoConf
    /\ cachedir \in BOOLEAN
    /\ upgradelink = "absent"
    /\ upgraderoot = FALSE
    /\ target_requires \in BOOLEAN
    /\ bootmenu = {}
    /\ bootfiles = BootPaths
    /\ moddirs = {}
    /\ xdev = FALSE
    /\ last = NoOp
    /\ staged = NothingStaged
    /\ cmdline = IdleCmdline
    /\ parsed = IdleParsed

\* fails: the packages whose link can fail with another errno than 18.
PrepUpgrade(lists, fails) ==
    \E pkgs \in lists, fail \in fails \cup {NONE} :
        \E o \in prep_upgrade(FS, pkgs, fail) :
            /\ SetFS(o.fs)
            /\ last' = [NoOp EXCEPT !.op = "prep_upgrade", !.ok = (o.err = NONE),
                                    !.err = o.err, !.pkgs = pkgs,
                                    !.again = (last.op = "prep_upgrade"
                                               /\ last.ok /\ last.pkgs = pkgs),
                                    !.removed =
                                        {f \in EntryNames :
                                            /\ packagedir.ents[f] # "absent"
                                            /\ o.fs.packagedir.ents[f] = "absent"},
                                    !.linkbefore = upgradelink,
                                    !.retry = (last.op = "prep_upgrade"
                                               /\ last.err = "link"
                                               /\ last.pkgs = pkgs)]
            /\ staged' = IF o.err = NONE THEN [staged EXCEPT !.upgrade = TRUE]
                         ELSE staged
            /\ UNCHANGED <<xdev, cmdline, parsed>>

\* The kernel and initrd are the images the downloader fetched: both exist.
PrepBoot ==
    \E kernel \in Kernels, initrd \in Initrds :
        /\ {kernel, initrd} \subseteq bootfiles
        /\ LET o == prep_boot(FS, kernel, initrd)
           IN /\ SetFS(o.fs)
              /\ last' = [NoOp EXCEPT !.op = "prep_boot", !.kernel = kernel,
                                      !.initrd = initrd]
              /\ staged' = [staged EXCEPT !.boot = @ \cup {<<kernel, initrd>>}]
        /\ UNCHANGED <<xdev, cmdline, parsed>>

DoCleanup ==
    \E args \in CleanArgs :
        /\ SetFS(do_cleanup(FS, args))
        /\ last' = [NoOp EXCEPT !.op = "do_cleanup", !.clean = args.clean,
                                !.skipbootloader = args.skipbootloader,
                                !.skipkernel = args.skipkernel,
                                !.skippkgs = args.skippkgs,
                                !.printed = do_cleanup_output(args)]
        /\ staged' = IF args.clean = "all" /\ ~args.skipbootloader
                        /\ ~args.skipkernel /\ ~args.skippkgs
                     THEN NothingStaged ELSE staged
        /\ UNCHANGED <<xdev, cmdline, parsed>>

Next == PrepUpgrade(LifePkgLists, LifeNames) \/ PrepBoot \/ DoCleanup

Spec == Init /\ [][Next]_vars

(***************************************************************************)
(* Staging alone, from whatever packagedir and upgradelink held, with no    *)
(* I/O failure: SpecStage                                                  *)
(***************************************************************************)
InitStage ==
    /\ packagedir \in {NoDir} \cup {[exists |-> TRUE, ents |-> e] : e \in InitEnts}
    /\ packagelist = NoList
    /\ upgradeconf = NoConf
    /\ cachedir = TRUE
    /\ upgradelink \in {"absent", "other", "packagedir"}
    /\ upgraderoot = FALSE
    /\ target_requires = FALSE
    /\ bootmenu = {}
    /\ bootfiles = BootPaths
    /\ moddirs = {}
    /\ xdev \in BOOLEAN
    /\ last = NoOp
    /\ staged = NothingStaged
    /\ cmdline = IdleCmdline
    /\ parsed = IdleParsed

NextStage == PrepUpgrade(PkgLists, {})

SpecStage == InitStage /\ [][NextStage]_vars

(***************************************************************************)
(* Staging with link failures and retries: SpecRetry                       *)
(***************************************************************************)
\* The packages that link_pkgs links or skips, and the lists of them.
RetryPkgLists ==
    SeqsUpTo({p \in Pkg : p.kind \in {"local", "missing"}}, MaxPkgs)

\* packagedir before the first run: missing, or left by the user or an
\* earlier staging, with the file that is no package in it.
InitRetry ==
    /\ packagedir \in {NoDir} \cup
                      {[exists |-> TRUE, ents |-> e] :
                          e \in {e \in InitEnts : e["notes.txt"] = "file"}}
    /\ packagelist = NoList
    /\ upgradeconf = NoConf
    /\ cachedir = TRUE
    /\ upgradelink \in {"absent", "other"}
    /\ upgraderoot = FALSE
    /\ target_requires = FALSE
    /\ bootmenu = {}
    /\ bootfiles = BootPaths
    /\ moddirs = {}
    /\ xdev \in BOOLEAN
    /\ last = NoOp
    /\ staged = NothingStaged
    /\ cmdline = IdleCmdline
    /\ parsed = IdleParsed

NextRetry == PrepUpgrade(RetryPkgLists, RpmNames)

SpecRetry == InitRetry /\ [][NextRetry]_vars

(***************************************************************************)
(* Option validation (commandline.py): SpecArgs                            *)
(***************************************************************************)
\* Most cleanup flags on one command line.
MaxCleanFlags == 2

\* The versions line 134 compares with.
CutoffVersion == 20
NextVersion == 21

\* str.lower() on the strings of the model.
lower(str) ==
    CASE str = "Rawhide" -> "rawhide"
      [] str = "Fedora" -> "fedora"
      [] str = "CentOS" -> "centos"
      [] OTHER -> str

\* float(str), in tenths; a string that is no number raises ValueError.
NumericStrings == {"18", "19", "20", "21", "22", "6.5"}
is_float(str) == str \in NumericStrings
float_x10(str) ==
    CASE str = "18" -> 180
      [] str = "19" -> 190
      [] str = "20" -> 200
      [] str = "21" -> 210
      [] str = "22" -> 220
      [] str = "6.5" -> 65

\* What a type function of argparse gives: the value, or the message of the
\* ArgumentTypeError (or of the TypeError / ValueError argparse reports).
Accept(value) == [ok |-> TRUE, value |-> value, msg |-> NONE]
Reject(msg) == [ok |-> FALSE, value |-> NONE, msg |-> msg]

\* product(arg)
valid_products == {"workstation", "server", "cloud", "nonproduct"}
product(arg) ==
    IF arg \notin valid_products
    THEN Reject("PRODUCTNAME must be one of: workstation, server, cloud, nonproduct")
    ELSE Accept(arg)

\* Most media references media.find() gives.
MaxMedia == 2

\* media.find() gives a list of these; the third is mounted over the first.
MediaRefs == {[dev |-> "/dev/sr0", mnt |-> "/media/a"],
              [dev |-> "/dev/sr1", mnt |-> "/media/b"],
              [dev |-> "/dev/sdb1", mnt |-> "/media/a"]}

\* os.path.realpath(arg): /dev/cdrom is a symlink to /dev/sr0.
realpath(arg) == IF arg = "/dev/cdrom" THEN "/dev/sr0" ELSE arg

\* ", ".join(m.dev for m in localmedia)
RECURSIVE join_devs(_)
join_devs(localmedia) ==
    IF Len(localmedia) = 0 THEN ""
    ELSE IF Len(localmedia) = 1 THEN localmedia[1].dev
    ELSE localmedia[1].dev \o ", " \o join_devs(Tail(localmedia))

\* device_or_mnt(arg), found being what media.find() returns.  The media
\* reference returned is named by its device.
device_or_mnt_mut_nocanon(arg, found) ==
    LET localmedia ==
            IF arg = "auto" THEN found
            ELSE SelectSeq(found, LAMBDA m : arg \in {m.dev, m.mnt})
        nomedia == "no install media found - please mount install media first"
    IN IF Len(localmedia) = 1 THEN Accept(localmedia[1].dev)
       ELSE IF Len(localmedia) = 0
       THEN Reject(IF arg # "auto" THEN arg \o ": " \o nomedia ELSE nomedia)
       ELSE Reject("multiple devices found. please choose one of ("
                   \o join_devs(localmedia) \o ")")
device_or_mnt(arg, found) ==
    LET canon == IF arg = "auto" THEN arg ELSE realpath(arg)
        localmedia ==
            IF arg = "auto" THEN found
            ELSE SelectSeq(found, LAMBDA m : canon \in {m.dev, m.mnt})
        nomedia == "no install media found - please mount install media first"
    IN IF Len(localmedia) = 1 THEN Accept(localmedia[1].dev)
       ELSE IF Len(localmedia) = 0
       THEN Reject(IF canon # "auto" THEN canon \o ": " \o nomedia ELSE nomedia)
       ELSE Reject("multiple devices found. please choose one of ("
                   \o join_devs(localmedia) \o ")")

\* What the filesystem and the media module say of an --iso argument.
IsoPaths == {"/tmp/f.iso", "/tmp/gone.iso", "/tmp/dir", "/tmp/notes.txt",
             "/run/media/usb/f.iso"}
path_exists(arg) == arg # "/tmp/gone.iso"
path_isfile(arg) == arg \notin {"/tmp/gone.iso", "/tmp/dir"}
isiso(arg) == arg \in {"/tmp/f.iso", "/run/media/usb/f.iso"}
on_removable(arg) == arg = "/run/media/usb/f.iso"

\* isofile(arg)
isofile(arg) ==
    IF ~path_exists(arg) THEN Reject("File not found: " \o arg)
    ELSE IF ~path_isfile(arg) THEN Reject("Not a regular file: " \o arg)
    ELSE IF ~isiso(arg) THEN Reject("Not an ISO 9660 image: " \o arg)
    ELSE IF on_removable(arg) THEN Reject("ISO image on removable media")
    ELSE Accept(arg)

\* VERSION(arg) on a system where platform.linux_distribution() gives
\* installed = <<distro, version>>.  float() of a string that is no number
\* raises ValueError, and "%i" % version raises TypeError, version being a
\* string: argparse reports both as "invalid VERSION value".
VERSION(arg, installed) ==
    IF lower(arg) = "rawhide" THEN Accept("rawhide")
    ELSE IF ~is_float(arg) \/ ~is_float(installed[2])
    THEN Reject("invalid VERSION value: " \o arg)
    ELSE IF float_x10(arg) > float_x10(installed[2]) THEN Accept(arg)
    ELSE Reject("invalid VERSION value: " \o arg)

\* Most repo flags on one command line.
MaxRepoFlags == 2

\* The repo flags and their values.
RepoOpts == {"--enablerepo", "--disablerepo", "--addrepo"}
RepoValues == {"foo", "bar=http://x/", "bar=x", "=http://x/"}
RepoFlag == [opt : RepoOpts, value : RepoValues]

\* opt.startswith(prefix) on the option strings of the parser.
startswith(opt, prefix) ==
    CASE prefix = "--enable" -> opt \in {"--enablerepo", "--enableplugin"}
      [] prefix = "--disable" -> opt \in {"--disablerepo", "--disableplugin"}
      [] prefix = "--addrepo" -> opt = "--addrepo"
      [] OTHER -> FALSE

\* value.partition("="): what is before the first '=', the '=', what is after.
partition(value) ==
    CASE value = "bar=http://x/" -> <<"bar", "=", "http://x/">>
      [] value = "bar=x" -> <<"bar", "=", "x">>
      [] value = "=http://x/" -> <<"", "=", "http://x/">>
      [] OTHER -> <<value, "", "">>

\* "://" in str
has_scheme(str) ==
    str \in {"http://x/", "bar=http://x/", "=http://x/", "http://inst/",
             "file:///etc/k.gpg"}

RepoOk(repos) == [ok |-> TRUE, repos |-> repos, msg |-> NONE]
RepoError(repos, msg) == [ok |-> FALSE, repos |-> repos, msg |-> msg]

\* RepoAction.__call__(parser, namespace, value, opt), curval being
\* namespace.repos.
RepoAction_mut_prepend(curval, opt, value) ==
    LET action == IF startswith(opt, "--enable") THEN "enable"
                  ELSE IF startswith(opt, "--disable") THEN "disable"
                  ELSE IF startswith(opt, "--addrepo") THEN "add"
                  ELSE ""
        parts == partition(value)
    IN IF /\ action = "add"
          /\ ~(parts[1] # "" /\ parts[2] # "" /\ has_scheme(parts[3]))
       THEN RepoError(curval, "value should be REPOID=[@]URL")
       ELSE RepoOk(<<<<action, value>>>> \o curval)
RepoAction(curval, opt, value) ==
    LET action == IF startswith(opt, "--enable") THEN "enable"
                  ELSE IF startswith(opt, "--disable") THEN "disable"
                  ELSE IF startswith(opt, "--addrepo") THEN "add"
                  ELSE ""
        parts == partition(value)
    IN IF /\ action = "add"
          /\ ~(parts[1] # "" /\ parts[2] # "" /\ has_scheme(parts[3]))
       THEN RepoError(curval, "value should be REPOID=[@]URL")
       ELSE RepoOk(Append(curval, <<action, value>>))

\* argparse calls the action once per repo flag, in command-line order, and
\* stops at the first error.
RECURSIVE repo_flags(_, _)
repo_flags(curval, flags) ==
    IF flags = << >> THEN RepoOk(curval)
    ELSE LET r == RepoAction(curval, Head(flags).opt, Head(flags).value)
         IN IF ~r.ok THEN r ELSE repo_flags(r.repos, Tail(flags))

\* The files a --instrepokey argument can name.
KeyArgs == {"/etc/k.gpg", "file:///etc/k.gpg", "/etc/notes.txt", "/gone"}
strip_file_scheme(arg) == IF arg = "file:///etc/k.gpg" THEN "/etc/k.gpg" ELSE arg
key_readable(path) == path # "/gone"
key_head_ok(path) == path = "/etc/k.gpg"

\* gpgkeyfile(arg); the paths of the model are absolute.
gpgkeyfile(arg) ==
    LET path == strip_file_scheme(arg)
    IN IF ~key_readable(path) THEN Reject("No such file or directory")
       ELSE IF ~key_head_ok(path) THEN Reject("File is not a GPG key")
       ELSE Accept("file://" \o path)

\* The value argparse leaves in args.clean: both flags store to dest 'clean',
\* the later one on the command line last.
clean_const(flag) == IF flag = "--clean" THEN "all" ELSE "bootloader"
clean_dest(cleanflags) ==
    IF cleanflags = << >> THEN NONE
    ELSE clean_const(cleanflags[Len(cleanflags)])

ParseOk(args) == [args EXCEPT !.status = "ok"]
ParseError(msg) == [IdleParsed EXCEPT !.status = "error", !.msg = msg]
ParseCrash(exc) == [IdleParsed EXCEPT !.status = "crash", !.msg = exc]

\* Lines 132-149: is --product required?  "crash" when the expression raises.
fedora_next_upgrade_mut_strict(args, installed) ==
    IF lower(installed[1]) # "fedora" THEN "no"
    ELSE IF ~is_float(installed[2]) THEN "ValueError"
    ELSE IF ~(float_x10(installed[2]) <= CutoffVersion * 10) THEN "no"
    ELSE IF args.network = NONE THEN "AttributeError"
    ELSE IF lower(args.network) = "rawhide" THEN "yes"
    ELSE IF float_x10(args.network) > NextVersion * 10 THEN "yes"
    ELSE "no"
fedora_next_upgrade(args, installed) ==
    IF lower(installed[1]) # "fedora" THEN "no"
    ELSE IF ~is_float(installed[2]) THEN "ValueError"
    ELSE IF ~(float_x10(installed[2]) <= CutoffVersion * 10) THEN "no"
    ELSE IF args.network = NONE THEN "AttributeError"
    ELSE IF lower(args.network) = "rawhide" THEN "yes"
    ELSE IF float_x10(args.network) >= NextVersion * 10 THEN "yes"
    ELSE "no"

\* Python truth of an optional string argument.
truthy(str) == str # NONE /\ str # ""

\* Lines 124-130: --instrepo URL, and the key of the instrepo.
instrepo_rewrite_mut_first(args) ==
    LET url == IF truthy(args.instrepo) /\ has_scheme(args.instrepo)
               THEN [args EXCEPT
                        !.repos = <<<<"add", "instrepo=" \o args.instrepo>>>> \o @,
                        !.instrepo = "instrepo"]
               ELSE args
    IN IF truthy(url.instrepo) /\ truthy(url.instrepokey)
       THEN [url EXCEPT
                !.repos = Append(@, <<"gpgkey", "instrepo=" \o url.instrepokey>>)]
       ELSE url
instrepo_rewrite(args) ==
    LET url == IF truthy(args.instrepo) /\ has_scheme(args.instrepo)
               THEN [args EXCEPT
                        !.repos = Append(@, <<"add", "instrepo=" \o args.instrepo>>),
                        !.instrepo = "instrepo"]
               ELSE args
    IN IF truthy(url.instrepo) /\ truthy(url.instrepokey)
       THEN [url EXCEPT
                !.repos = Append(@, <<"gpgkey", "instrepo=" \o url.instrepokey>>)]
       ELSE url

\* parse_args(gui) on the command line cl: the set of outcomes (when several
\* arguments are invalid, argparse reports the first on the command line).
parse_args(cl) ==
    LET dev == IF cl.device = NONE THEN Accept(NONE)
               ELSE device_or_mnt(cl.device, cl.found)
        iso == IF cl.iso = NONE THEN Accept(NONE) ELSE isofile(cl.iso)
        net == IF cl.network = NONE THEN Accept(NONE)
               ELSE VERSION(cl.network, cl.installed)
        prod == IF cl.product = NONE THEN Accept(NONE) ELSE product(cl.product)
        key == IF cl.instrepokey = NONE THEN Accept(NONE)
               ELSE gpgkeyfile(cl.instrepokey)
        user == repo_flags(<< >>, cl.repoflags)
        errs == {r.msg : r \in {r \in {dev, iso, net, prod, key} : ~r.ok}}
                \cup (IF ~user.ok THEN {user.msg} ELSE {})
                \cup (IF cl.gui /\ cl.cleanflags # << >>
                      THEN {"unrecognized arguments"} ELSE {})
        given == [IdleParsed EXCEPT !.network = net.value, !.device = dev.value,
                                    !.iso = iso.value, !.product = prod.value,
                                    !.clean = clean_dest(cl.cleanflags),
                                    !.repos = user.repos,
                                    !.instrepo = cl.instrepo,
                                    !.instrepokey = key.value]
        args == instrepo_rewrite(given)
        next == fedora_next_upgrade(args, cl.installed)
    IN IF errs # {} THEN {ParseError(m) : m \in errs}
       ELSE IF ~(cl.gui \/ args.network # NONE \/ args.device # NONE
                 \/ args.iso # NONE \/ args.clean # NONE)
       THEN {ParseError("SOURCE is required (--network, --device, --iso)")}
       ELSE IF next \notin {"yes", "no"} THEN {ParseCrash(next)}
       ELSE IF next = "yes" /\ args.product = NONE
       THEN {ParseError("you must provide the --product=PRODUCTNAME option")}
       ELSE IF ~cl.gui /\ args.clean # NONE
       THEN {ParseOk([args EXCEPT !.resetbootloader = TRUE])}
       ELSE {ParseOk(args)}

Installed == {<<"Fedora", "19">>, <<"Fedora", "20">>, <<"Fedora", "21">>,
              <<"CentOS", "6.5">>, <<"", "">>}
Cmdlines ==
    [gui : BOOLEAN,
     network : {NONE, "rawhide", "Rawhide", "18", "20", "21", "22", "x"},
     device : {NONE, "auto", "/dev/cdrom", "/media/a"},
     found : {s \in SeqsUpTo(MediaRefs, MaxMedia) :
                 \A i, j \in 1..Len(s) : i # j => s[i] # s[j]},
     iso : {NONE} \cup IsoPaths,
     product : {NONE, "server", "desktop"},
     cleanflags : SeqsUpTo({"--resetbootloader", "--clean"}, MaxCleanFlags),
     installed : Installed,
     repoflags : {<< >>}, instrepo : {NONE}, instrepokey : {NONE}]

\* The command lines that vary the repo options, for one source each.
InstRepos == {NONE, "", "myrepo", "http://inst/"}
OneMedia == <<[dev |-> "/dev/sr0", mnt |-> "/media/a"]>>
RepoCmdlines ==
    {cl \in [gui : {FALSE},
             network : {NONE, "22"},
             device : {NONE, "auto"},
             found : {OneMedia},
             iso : {NONE, "/tmp/f.iso"},
             product : {"server"},
             cleanflags : {<< >>},
             installed : {<<"CentOS", "6.5">>, <<"Fedora", "21">>},
             repoflags : SeqsUpTo(RepoFlag, MaxRepoFlags),
             instrepo : InstRepos,
             instrepokey : {NONE} \cup KeyArgs] :
        Cardinality({k \in {"network", "device", "iso"} : cl[k] # NONE}) = 1}

InitArgs ==
    /\ packagedir = NoDir
    /\ packagelist = NoList
    /\ upgradeconf = NoConf
    /\ cachedir = FALSE
    /\ upgradelink = "absent"
    /\ upgraderoot = FALSE
    /\ target_requires = FALSE
    /\ bootmenu = {}
    /\ bootfiles = BootPaths
    /\ moddirs = {}
    /\ xdev = FALSE
    /\ last = NoOp
    /\ staged = NothingStaged
    /\ cmdline \in Cmdlines \cup RepoCmdlines
    /\ parsed = IdleParsed

ParseArgs ==
    /\ parsed.status = "idle"
    /\ parsed' \in parse_args(cmdline)
    /\ UNCHANGED <<fsvars, xdev, last, staged, cmdline>>

\* What media.loopmount(args.iso) returns when the mount succeeds.
LoopRef == [dev |-> "/dev/loop0", mnt |-> "/run/fedup.iso"]
\* m.mnt of the media reference named by its device.
mnt_of(dev) == (CHOOSE m \in MediaRefs \cup {LoopRef} : m.dev = dev).mnt

\* device_setup(args); mounted: media.loopmount succeeds, or raises
\* CalledProcessError.  setup is how the call ended: "returned" with mnt the
\* value returned, "nomount" for the bare return of line 273, or the
\* exception that line 278 raises when args.device is None.
device_setup(args, mounted) ==
    IF args.device # NONE
    THEN [args EXCEPT
             !.repos = Append(@, <<"add", "upgradedevice=file://"
                                             \o mnt_of(args.device)>>),
             !.instrepo = IF ~truthy(@) THEN "upgradedevice" ELSE @,
             !.setup = "returned", !.mnt = mnt_of(args.device)]
    ELSE IF args.iso # NONE
    THEN IF ~mounted THEN [args EXCEPT !.setup = "nomount"]
         ELSE [args EXCEPT
                  !.device = LoopRef.dev,
                  !.repos = Append(@, <<"add", "upgradeiso=file://"
                                                  \o LoopRef.mnt>>),
                  !.instrepo = IF ~truthy(@) THEN "upgradeiso" ELSE @,
                  !.setup = "returned", !.mnt = LoopRef.mnt]
    ELSE [args EXCEPT !.setup = "AttributeError"]

DeviceSetup ==
    /\ parsed.status = "ok" /\ parsed.setup = "none"
    /\ \E mounted \in BOOLEAN : parsed' = device_setup(parsed, mounted)
    /\ UNCHANGED <<fsvars, xdev, last, staged, cmdline>>

NextArgs == ParseArgs \/ DeviceSetup

SpecArgs == InitArgs /\ [][NextArgs]_vars

(***************************************************************************)
(* Cleanup claims                                                          *)
(***************************************************************************)
FullCleanupRan ==
    /\ last.op = "do_cleanup" /\ last.clean = "all"
    /\ ~last.skipbootloader /\ ~last.skipkernel /\ ~last.skippkgs

\* C1: whatever state do_cleanup starts from, after do_cleanup with clean
\* mode 'all' and no skip flag the run has completed without error and none
\* of packagedir, cachedir, upgradelink and upgraderoot exists.
C1_FullCleanupComplete ==
    FullCleanupRan =>
        /\ last.ok
        /\ ~packagedir.exists /\ ~packagelist.exists /\ ~upgradeconf.exists
        /\ ~cachedir
        /\ upgradelink = "absent"
        /\ ~upgraderoot

\* A full cleanup has run on a system that had been staged (the module
\* directory and the removed boot images show it).
C1_Witness ==
    /\ FullCleanupRan
    /\ moddirs # {}
    /\ bootfiles # BootPaths
    /\ ~packagedir.exists /\ ~cachedir

\* C2: a do_cleanup with clean mode 'bootloader' changes nothing except, at
\* most, removing the boot-menu entries of the persisted kernel, whatever the
\* skip flags are.
C2_BootloaderCleanupFrame ==
    [][(last'.op = "do_cleanup" /\ last'.clean = "bootloader") =>
          /\ UNCHANGED <<packagedir, packagelist, upgradeconf, cachedir,
                         upgradelink, upgraderoot, target_requires, bootfiles,
                         moddirs>>
          /\ bootmenu' \subseteq bootmenu
          /\ \A e \in bootmenu \ bootmenu' :
                upgradeconf.exists /\ e[1] = upgradeconf.kernel]_vars

\* A bootloader-only cleanup has removed the persisted kernel's entry and
\* left another kernel's entry, the packages and the boot images in place.
C2_Witness ==
    /\ last.op = "do_cleanup" /\ last.clean = "bootloader"
    /\ upgradeconf.exists /\ upgradeconf.kernel \in Kernels
    /\ \A e \in bootmenu : e[1] # upgradeconf.kernel
    /\ bootmenu # {}
    /\ packagedir.exists /\ packagelist.exists /\ upgraderoot
    /\ bootfiles = BootPaths

\* C3: when prep_upgrade and prep_boot(kernel, initrd) have completed and
\* do_cleanup with mode 'all' and no skip flags then runs, nothing staged is
\* left: no boot-menu entry of the staged kernel, no staged kernel or initrd
\* file, and no directory that staging created, the module directory included.
C3_StageThenCleanLeavesNothing ==
    [][(/\ staged.upgrade /\ staged.boot # {}
        /\ last'.op = "do_cleanup" /\ last'.clean = "all"
        /\ ~last'.skipbootloader /\ ~last'.skipkernel /\ ~last'.skippkgs) =>
          /\ \A p \in staged.boot :
                /\ \A e \in bootmenu' : e[1] # p[1]
                /\ p[1] \notin bootfiles' /\ p[2] \notin bootfiles'
                /\ kernelver(p[1]) \notin moddirs'
          /\ ~packagedir'.exists /\ ~upgraderoot'
          /\ upgradelink' = "absent"]_vars

NamesOfKind(pkgs, kinds) ==
    {pkgs[i].name : i \in {j \in 1..Len(pkgs) : pkgs[j].kind \in kinds}}
MediaNames(pkgs) == {"media/" \o n : n \in NamesOfKind(pkgs, {"media"})}
\* Every package of pkgs, and those whose file is on media or exists locally.
FullBasenames(pkgs) ==
    MediaNames(pkgs) \cup NamesOfKind(pkgs, {"local", "missing"})
FoundBasenames(pkgs) == MediaNames(pkgs) \cup NamesOfKind(pkgs, {"local"})
Present(dir) == {f \in EntryNames : dir.ents[f] # "absent"}
StagingRan == last.op = "prep_upgrade" /\ last.ok

\* C5: a second prep_upgrade of the same package set, right after a completed
\* one, raises no error ('already exists' or other) and leaves packagedir,
\* the package list, upgradelink, upgraderoot and the persisted state as the
\* first run left them.
C5_StagingIdempotent ==
    [][(/\ last.op = "prep_upgrade" /\ last.ok
        /\ last'.op = "prep_upgrade" /\ last'.pkgs = last.pkgs) =>
          /\ last'.ok
          /\ UNCHANGED fsvars]_vars

\* prep_upgrade has completed twice in a row for the same, non-empty package
\* set, with package files staged.
C5_Witness ==
    /\ StagingRan /\ last.again
    /\ last.pkgs # << >>
    /\ \E f \in RpmNames : packagedir.ents[f] \in {"link", "copy"}
    /\ upgraderoot /\ upgradelink = "packagedir"

C7_StagedSetExact_AsClaimed ==
    StagingRan =>
        /\ Present(packagedir) \cap RpmNames =
               NamesOfKind(last.pkgs, {"local", "missing"})
        /\ packagelist.exists
        /\ packagelist.lines = FullBasenames(last.pkgs)

\* C7 as amended: after link_pkgs(pkgs) completes, packagedir holds a package
\* file (a link or a copy) for exactly the basenames of the packages of pkgs
\* that are not on media and whose local file exists; a package on media is
\* not copied and is listed under 'media/'; the package list holds the
\* basenames of the packages on media and of those whose local file exists.
C7_StagedSetExact ==
    StagingRan =>
        /\ Present(packagedir) \cap RpmNames = NamesOfKind(last.pkgs, {"local"})
        /\ \A f \in NamesOfKind(last.pkgs, {"local"}) :
               packagedir.ents[f] \in {"link", "copy"}
        /\ \A f \in NamesOfKind(last.pkgs, {"media"}) :
               /\ ("media/" \o f) \in packagelist.lines
               /\ f \notin NamesOfKind(last.pkgs, {"local"})
                      => packagedir.ents[f] = "absent"
        /\ packagelist.exists
        /\ packagelist.lines = FoundBasenames(last.pkgs)

\* A completed staging of a package whose local file is missing and of one
\* whose file exists: the old file of the missing one was removed as stale.
C7_Witness ==
    /\ StagingRan
    /\ \E i, j \in 1..Len(last.pkgs) :
          /\ last.pkgs[i].kind = "missing" /\ last.pkgs[j].kind = "local"
          /\ last.pkgs[i].name # last.pkgs[j].name
          /\ last.pkgs[i].name \in last.removed
          /\ packagedir.ents[last.pkgs[j].name] \in {"link", "copy"}

\* C8: when prep_upgrade completes, upgradelink is a symlink to packagedir and
\* packagedir exists, whatever upgradelink was before.
C8_UpgradeLinkPublished ==
    StagingRan => upgradelink = "packagedir" /\ packagedir.exists

\* A completed staging replaced a symlink that pointed elsewhere.
C8_Witness ==
    /\ StagingRan
    /\ last.linkbefore = "other"
    /\ upgradelink = "packagedir" /\ packagedir.exists

(***************************************************************************)
(* Validation claims (SpecArgs)                                            *)
(***************************************************************************)
SourcesOf(r) == {k \in {"network", "device", "iso"} : r[k] # NONE}
\* The UpgradeRequest invariant, of a request and of the flags given.
Coherent(r) ==
    IF r.clean = NONE THEN Cardinality(SourcesOf(r)) = 1 ELSE SourcesOf(r) = {}
FlagsCoherent(cl) ==
    IF cl.cleanflags = << >> THEN Cardinality(SourcesOf(cl)) = 1
    ELSE SourcesOf(cl) = {}

\* C9: of the non-GUI runs of parse_args that end with a request or with a
\* validation error: an accepted request has exactly one source if no clean
\* mode is set and no source if one is set, and every flag combination that
\* is not so is rejected with a validation error.
C9_OneCoherentSource ==
    (~cmdline.gui /\ parsed.status \in {"ok", "error"}) =>
        /\ parsed.status = "ok" => Coherent(parsed)
        /\ ~FlagsCoherent(cmdline) => parsed.status = "error"

\* C10: for one source, or a clean request without a source, with or without
\* a product, on every installed system, parse_args returns a request or
\* fails with a validation error, and ends in no other failure.
C10_ValidatorTotal ==
    (~cmdline.gui /\ FlagsCoherent(cmdline)) =>
        parsed.status \in {"idle", "ok", "error"}

\* Every type function of the parser accepts its argument of the command line.
ArgsAccepted(cl) ==
    /\ cl.device # NONE => device_or_mnt(cl.device, cl.found).ok
    /\ cl.iso # NONE => isofile(cl.iso).ok
    /\ cl.network # NONE => VERSION(cl.network, cl.installed).ok
    /\ cl.product # NONE => product(cl.product).ok
    /\ cl.instrepokey # NONE => gpgkeyfile(cl.instrepokey).ok
    /\ repo_flags(<< >>, cl.repoflags).ok
    /\ ~(cl.gui /\ cl.cleanflags # << >>)

ProductRequiredMsg == "you must provide the --product=PRODUCTNAME option"

\* The installed system is Fedora at or below the cutoff and the network
\* target is 'rawhide' in any letter case or at or after the next generation.
AtGenerationBoundary(cl) ==
    /\ lower(cl.installed[1]) = "fedora"
    /\ float_x10(cl.installed[2]) <= CutoffVersion * 10
    /\ \/ lower(cl.network) = "rawhide"
       \/ float_x10(cl.network) >= NextVersion * 10

\* C11: of the requests with a network target whose arguments are each valid:
\* parse_args fails with the product-required error exactly when no product
\* is given, the installed system is Fedora at or below 20 and the target is
\* 'rawhide' (any letter case) or a version at or after 21; below that
\* boundary, or with a product, the request is returned.
C11_ProductAtBoundary ==
    (/\ parsed.status # "idle" /\ cmdline.network # NONE
     /\ ArgsAccepted(cmdline)) =>
        LET required == cmdline.product = NONE /\ AtGenerationBoundary(cmdline)
        IN /\ required <=> (/\ parsed.status = "error"
                            /\ parsed.msg = ProductRequiredMsg)
           /\ ~required => parsed.status = "ok"

\* A request for 'Rawhide' without a product was rejected on Fedora 20.
C11_Witness ==
    /\ parsed.status = "error" /\ parsed.msg = ProductRequiredMsg
    /\ cmdline.installed = <<"Fedora", "20">>
    /\ cmdline.network = "Rawhide" /\ cmdline.product = NONE

\* C12: of the runs of parse_args with --network and a valid product:
\* 'rawhide' is returned as 'rawhide', a numeric version above the installed
\* version N is returned unchanged, and a numeric version at or below N fails
\* with the validation error 'version must be greater than N'.
C12_NetworkVersionCheck ==
    (/\ parsed.status # "idle" /\ cmdline.network # NONE
     /\ cmdline.device = NONE /\ cmdline.iso = NONE
     /\ cmdline.product = "server" /\ cmdline.cleanflags = << >>
     /\ is_float(cmdline.installed[2])) =>
        /\ cmdline.network = "rawhide" =>
               parsed.status = "ok" /\ parsed.network = "rawhide"
        /\ (/\ is_float(cmdline.network)
            /\ float_x10(cmdline.network) > float_x10(cmdline.installed[2])) =>
               parsed.status = "ok" /\ parsed.network = cmdline.network
        /\ (/\ is_float(cmdline.network)
            /\ float_x10(cmdline.network) <= float_x10(cmdline.installed[2])) =>
               /\ parsed.status = "error"
               /\ parsed.msg = "version must be greater than "
                                   \o cmdline.installed[2]

\* The pair a repo flag stands for.
KindOf(opt) ==
    CASE opt = "--enablerepo" -> "enable"
      [] opt = "--disablerepo" -> "disable"
      [] opt = "--addrepo" -> "add"
ExpectedRepos(flags) ==
    [i \in 1..Len(flags) |-> <<KindOf(flags[i].opt), flags[i].value>>]
\* The value is repoid=url, the url having '://'.
WellFormedAdd(value) == value = "bar=http://x/"
BadAdds(flags) ==
    {i \in 1..Len(flags) :
        flags[i].opt = "--addrepo" /\ ~WellFormedAdd(flags[i].value)}

\* C13: when parse_args returns a request, its repos list starts with one
\* (kind, payload) pair per repo flag, in command-line order, duplicates
\* kept; a command line with an --addrepo value that is not repoid=url with
\* '://' in the url is rejected, with 'value should be REPOID=[@]URL' when
\* nothing else is invalid, and the action adds nothing to the list.
C13_RepoOrderPreserved ==
    parsed.status # "idle" =>
        LET flags == cmdline.repoflags
            user == repo_flags(<< >>, flags)
        IN /\ parsed.status = "ok" =>
                /\ BadAdds(flags) = {}
                /\ Len(parsed.repos) >= Len(flags)
                /\ SubSeq(parsed.repos, 1, Len(flags)) = ExpectedRepos(flags)
           /\ BadAdds(flags) # {} =>
                /\ parsed.status = "error" /\ parsed.repos = << >>
                /\ (cmdline.instrepokey # NONE
                        => gpgkeyfile(cmdline.instrepokey).ok)
                     => parsed.msg = "value should be REPOID=[@]URL"
                /\ LET first == CHOOSE i \in BadAdds(flags) :
                                    \A j \in BadAdds(flags) : i <= j
                   IN user.repos = SubSeq(ExpectedRepos(flags), 1, first - 1)

\* --enablerepo foo --disablerepo foo was accepted.
C13_Witness ==
    /\ parsed.status = "ok"
    /\ cmdline.repoflags = <<[opt |-> "--enablerepo", value |-> "foo"],
                             [opt |-> "--disablerepo", value |-> "foo"]>>
    /\ parsed.repos = <<<<"enable", "foo">>, <<"disable", "foo">>>>

\* C14: in the request parse_args returns: an instrepo with '://' is
\* replaced by the id 'instrepo' and ('add', 'instrepo=<url>') follows the
\* user's repo actions; with an instrepo (a URL or a repo id) and a GPG key,
\* ('gpgkey', 'instrepo=<key>') follows that; without an instrepo the list
\* is the user's repo actions and nothing else.
C14_InstrepoRewrite ==
    (parsed.status = "ok" /\ parsed.setup = "none") =>
        LET user == ExpectedRepos(cmdline.repoflags)
            given == cmdline.instrepo \notin {NONE, ""}
            isurl == cmdline.instrepo \in {"http://inst/"}
            add == IF isurl
                   THEN <<<<"add", "instrepo=" \o cmdline.instrepo>>>>
                   ELSE << >>
            gpgkey == IF given /\ cmdline.instrepokey # NONE
                      THEN <<<<"gpgkey", "instrepo=" \o parsed.instrepokey>>>>
                      ELSE << >>
        IN /\ parsed.repos = user \o add \o gpgkey
           /\ parsed.instrepo = IF isurl THEN "instrepo" ELSE cmdline.instrepo
           /\ cmdline.instrepokey # NONE => parsed.instrepokey = "file:///etc/k.gpg"

\* An instrepo URL and a key were given after two repo flags.
C14_Witness ==
    /\ parsed.status = "ok" /\ parsed.setup = "none"
    /\ cmdline.instrepo = "http://inst/" /\ cmdline.instrepokey = "/etc/k.gpg"
    /\ Len(cmdline.repoflags) = 2
    /\ Len(parsed.repos) = 4
    /\ parsed.repos[3] = <<"add", "instrepo=http://inst/">>
    /\ parsed.repos[4] = <<"gpgkey", "instrepo=file:///etc/k.gpg">>

\* The canonical path of a --device argument.
Canonical(arg) == IF arg = "/dev/cdrom" THEN "/dev/sr0" ELSE arg
\* The positions in found of the references the argument selects.
Selected(cl) ==
    {i \in 1..Len(cl.found) :
        \/ cl.device = "auto"
        \/ Canonical(cl.device) \in {cl.found[i].dev, cl.found[i].mnt}}
\* The devices of the selected references, in the order found.
SelectedDevs(cl) ==
    LET refs == SelectSeq(cl.found,
                          LAMBDA m : \/ cl.device = "auto"
                                     \/ Canonical(cl.device) \in {m.dev, m.mnt})
    IN [i \in 1..Len(refs) |-> refs[i].dev]
RECURSIVE CommaList(_)
CommaList(strs) ==
    IF Len(strs) = 1 THEN strs[1]
    ELSE strs[1] \o ", " \o CommaList(Tail(strs))
NoMediaMsg == "no install media found - please mount install media first"

\* C15: of the runs of parse_args with --device as the only argument that
\* end with a request or a validation error: with exactly one selected
\* reference (all found ones for 'auto', else those whose device or mount
\* path is the canonical path of the argument) that reference is returned;
\* with none the error is 'no install media found'; with two or more it is
\* 'multiple devices found', listing their devices.
C15_DeviceSelection ==
    (/\ parsed.status \in {"ok", "error"} /\ cmdline.device # NONE
     /\ cmdline.network = NONE /\ cmdline.iso = NONE
     /\ cmdline.product = NONE /\ cmdline.cleanflags = << >>
     /\ cmdline.repoflags = << >> /\ cmdline.instrepokey = NONE) =>
        LET sel == Selected(cmdline)
            found == cmdline.found
        IN /\ Cardinality(sel) = 1 =>
                /\ parsed.status = "ok"
                /\ \A i \in sel : parsed.device = found[i].dev
           /\ Cardinality(sel) = 0 =>
                /\ parsed.status = "error"
                /\ parsed.msg = IF cmdline.device = "auto" THEN NoMediaMsg
                                ELSE Canonical(cmdline.device) \o ": " \o NoMediaMsg
           /\ Cardinality(sel) >= 2 =>
                /\ parsed.status = "error"
                /\ parsed.msg =
                       "multiple devices found. please choose one of ("
                       \o CommaList(SelectedDevs(cmdline)) \o ")"

\* --device /dev/cdrom selected the one of two references that /dev/cdrom
\* resolves to.
C15_Witness ==
    /\ parsed.status = "ok"
    /\ cmdline.device = "/dev/cdrom" /\ Len(cmdline.found) = 2
    /\ parsed.device = "/dev/sr0"

\* C17: device_setup of a validated request ends by returning the mount
\* path or by signalling 'no source mounted', and raises nothing.  With a
\* resolved device it appends ('add', 'upgradedevice=file://<mnt>') and sets
\* instrepo to 'upgradedevice' if instrepo was unset; with an image file it
\* does the same under 'upgradeiso' when the loop mount succeeds, and else
\* signals 'no source mounted' with repos and instrepo unchanged; with a
\* network target only it signals 'no source mounted' and changes nothing.
C17_SourceResolution ==
    [][(parsed.status = "ok" /\ parsed.setup = "none"
        /\ parsed'.setup # "none") =>
          LET unset == parsed.instrepo \in {NONE, ""}
              unchanged == /\ parsed'.repos = parsed.repos
                           /\ parsed'.instrepo = parsed.instrepo
                           /\ parsed'.device = parsed.device
              added(id, mnt) ==
                  /\ parsed'.setup = "returned" /\ parsed'.mnt = mnt
                  /\ parsed'.repos =
                         Append(parsed.repos,
                                <<"add", id \o "=file://" \o mnt>>)
                  /\ parsed'.instrepo = IF unset THEN id ELSE parsed.instrepo
          IN /\ parsed'.setup \in {"returned", "nomount"}
             /\ parsed.device # NONE =>
                    \E m \in MediaRefs :
                        m.dev = parsed.device /\ added("upgradedevice", m.mnt)
             /\ (parsed.device = NONE /\ parsed.iso # NONE) =>
                    \/ added("upgradeiso", LoopRef.mnt)
                    \/ parsed'.setup = "nomount" /\ unchanged
             /\ (parsed.device = NONE /\ parsed.iso = NONE) =>
                    parsed'.setup = "nomount" /\ unchanged]_vars

\* C20: when parse_args returns a request for a command line that holds
\* --clean, with or without --resetbootloader and in either order, the clean
\* mode of the request is 'all' and the bootloader reset is asked for.
C20_FullCleanWins ==
    (/\ parsed.status = "ok"
     /\ \E i \in 1..Len(cmdline.cleanflags) : cmdline.cleanflags[i] = "--clean") =>
        parsed.clean = "all" /\ parsed.resetbootloader

(***************************************************************************)
(* Cleanup order and failure handling                                      *)
(***************************************************************************)
\* The place of a printed line in the fixed order of the steps.
StepRank(line) ==
    CASE line = "resetting bootloader config" -> 1
      [] line = "removing boot images" -> 3
      [] line = "removing downloaded packages" -> 4
      [] line = "removing miscellaneous files" -> 5
Ran(printed, line) == \E i \in 1..Len(printed) : printed[i] = line

\* C16: in every run of do_cleanup the steps announced are in the order 1, 3,
\* 4, 5; step 1 runs unless skipbootloader, and in mode 'bootloader' nothing
\* else runs; in mode 'all' step 3 runs unless skipkernel, step 4 unless
\* skippkgs, and step 5 always.  The state shows it: the boot-menu entry and
\* the boot images of the kernel and initrd persisted before the run are
\* removed by steps 1 and 3 even when step 4 removes the persisted state,
\* and each skipped step leaves its part as it was.
C16_CleanupOrderAndSkips ==
    [][last'.op = "do_cleanup" =>
          LET a == last'
              all == a.clean = "all"
              kernel == conf_get_kernel(FS)
              initrd == conf_get_initrd(FS)
          IN /\ \A i, j \in 1..Len(a.printed) :
                    i < j => StepRank(a.printed[i]) < StepRank(a.printed[j])
             /\ Ran(a.printed, "resetting bootloader config")
                    <=> ~a.skipbootloader
             /\ Ran(a.printed, "removing boot images")
                    <=> (all /\ ~a.skipkernel)
             /\ Ran(a.printed, "removing downloaded packages")
                    <=> (all /\ ~a.skippkgs)
             /\ Ran(a.printed, "removing miscellaneous files") <=> all
             /\ bootmenu' = IF a.skipbootloader THEN bootmenu
                            ELSE {e \in bootmenu : e[1] # kernel}
             /\ bootfiles' = IF all /\ ~a.skipkernel
                             THEN bootfiles \ {kernel, initrd}
                             ELSE bootfiles
             /\ IF all /\ ~a.skippkgs
                THEN ~packagedir'.exists /\ ~cachedir'
                ELSE UNCHANGED <<packagedir, packagelist, upgradeconf, cachedir>>
             /\ IF all
                THEN upgradelink' = "absent" /\ ~upgraderoot' /\ ~target_requires'
                ELSE UNCHANGED <<upgradelink, upgraderoot, target_requires>>
             /\ UNCHANGED moddirs]_vars

\* A full cleanup with skipkernel ran after the boot was staged: the boot
\* images stay, the boot-menu entry, the packages and the link are gone.
C16_Witness ==
    /\ last.op = "do_cleanup" /\ last.clean = "all"
    /\ last.skipkernel /\ ~last.skipbootloader /\ ~last.skippkgs
    /\ last.printed = <<"resetting bootloader config",
                        "removing downloaded packages",
                        "removing miscellaneous files">>
    /\ staged.boot # {} /\ staged.upgrade
    /\ bootfiles = BootPaths /\ bootmenu = {}
    /\ ~packagedir.exists /\ upgradelink = "absent"

\* The run removes packagedir, and the persisted state with it.
RemovesState == packagedir.exists /\ ~packagedir'.exists
\* Nothing the persisted state recorded is left after the step.
RecordedBootGone ==
    LET kernel == conf_get_kernel(FS)
        initrd == conf_get_initrd(FS)
    IN /\ kernel # NONE =>
            /\ \A e \in bootmenu' : e[1] # kernel
            /\ kernel \notin bootfiles'
       /\ initrd # NONE => initrd \notin bootfiles'

\* C19 as claimed: in every run of do_cleanup, whatever the mode and the skip
\* flags, if the run removes packagedir and the persisted state then the
\* boot-menu entry of the persisted kernel and the persisted kernel and
\* initrd files are removed as well.
C19_StateOutlivesBoot_AsClaimed ==
    [][(last'.op = "do_cleanup" /\ RemovesState) => RecordedBootGone]_vars

\* C19 as amended: the same, for the runs of do_cleanup that skip neither
\* the boot-menu step nor the boot-image step.
C19_StateOutlivesBoot ==
    [][(/\ last'.op = "do_cleanup" /\ RemovesState
        /\ ~last'.skipbootloader /\ ~last'.skipkernel) =>
          RecordedBootGone]_vars

\* A cleanup without skip flags removed the persisted state of a staged boot
\* and with it the boot-menu entry and the boot images.
C19_Witness ==
    /\ FullCleanupRan
    /\ staged = NothingStaged /\ moddirs # {}
    /\ ~packagedir.exists /\ ~upgradeconf.exists
    /\ bootmenu = {}
    /\ "/boot/vmlinuz-fedup" \notin bootfiles
    /\ "/boot/initramfs-fedup.img" \notin bootfiles

\* C18: in every run of prep_upgrade: across filesystems (errno 18) each
\* package that is linked is copied instead and the run completes; a run
\* that another link or copy failure aborts leaves the package list, the
\* persisted state, upgradelink, upgraderoot and every entry of packagedir
\* that is no package of this run as they were; and from the state the
\* aborted run leaves, prep_upgrade of the same packages without the
\* failure ends exactly as it would have ended from the state before it.
C18_LinkFailureAndRetry ==
    [][last'.op = "prep_upgrade" =>
          LET pkgs == last'.pkgs
              local == NamesOfKind(pkgs, {"local"})
          IN /\ (last'.ok /\ xdev) =>
                    \A f \in local : packagedir'.ents[f] = "copy"
             /\ last'.err = "link" =>
                    /\ UNCHANGED <<packagelist, upgradeconf, upgradelink,
                                   upgraderoot>>
                    /\ \A f \in EntryNames \ local :
                           packagedir'.ents[f] = packagedir.ents[f]
                    /\ prep_upgrade(FS', pkgs, NONE)
                           = prep_upgrade(FS, pkgs, NONE)
             /\ (last'.retry /\ last'.ok) =>
                    /\ packagelist'.exists /\ upgradeconf'.exists
                    /\ upgradelink' = "packagedir" /\ upgraderoot'
                    /\ \A f \in local : packagedir'.ents[f] \in {"link", "copy"}]_vars

\* Across filesystems, the retry of an aborted staging of two packages has
\* completed: both are copied and the stale state is as after any staging.
C18_Witness ==
    /\ StagingRan /\ last.retry /\ xdev
    /\ \A f \in RpmNames : packagedir.ents[f] = "copy"
    /\ packagedir.ents["notes.txt"] = "file"
    /\ upgradelink = "packagedir" /\ upgraderoot

====
